---- MODULE Spec2Model ----
(***************************************************************************)
(* Model of scripts/generate-gallery.mjs: the incremental gallery build.   *)
(* A JavaScript string is modelled as a sequence of one-character strings, *)
(* so that trimming, slash handling and the node:path functions are        *)
(* computed character by character as the code computes them.              *)
(***************************************************************************)
EXTENDS FiniteSets, Integers, Sequences, TLC

(***************************************************************************)
(* Bounds of the model.                                                    *)
(***************************************************************************)
MaxLen == 2
MaxRuns == 2
MaxChars == 4

(***************************************************************************)
(* Program constants.                                                      *)
(***************************************************************************)
THUMB_WIDTH == 900
THUMB_QUALITY == 78

PROJECT_ROOT == <<"/", "r">>

(***************************************************************************)
(* String primitives of JavaScript.                                        *)
(***************************************************************************)
IsSpace(c) == c = " "

StartsWith(s, c) == Len(s) > 0 /\ s[1] = c

EndsWith(s, c) == Len(s) > 0 /\ s[Len(s)] = c

RECURSIVE TrimStart(_)
TrimStart(s) ==
  IF Len(s) > 0 /\ IsSpace(s[1]) THEN TrimStart(Tail(s)) ELSE s

RECURSIVE TrimEnd(_)
TrimEnd(s) ==
  IF Len(s) > 0 /\ IsSpace(s[Len(s)]) THEN TrimEnd(SubSeq(s, 1, Len(s) - 1)) ELSE s

Trim(s) == TrimEnd(TrimStart(s))

ReplaceAllChar(s, from, to) == [i \in 1..Len(s) |-> IF s[i] = from THEN to ELSE s[i]]

RECURSIVE JoinWith(_, _)
JoinWith(segs, sep) ==
  IF Len(segs) = 0 THEN <<>>
  ELSE IF Len(segs) = 1 THEN segs[1]
  ELSE segs[1] \o <<sep>> \o JoinWith(Tail(segs), sep)

RECURSIVE SplitOn(_, _)
SplitOn(s, sep) ==
  IF \A i \in 1..Len(s) : s[i] # sep THEN <<s>>
  ELSE LET k == CHOOSE i \in 1..Len(s) : s[i] = sep /\ \A j \in 1..(i - 1) : s[j] # sep
       IN <<SubSeq(s, 1, k - 1)>> \o SplitOn(SubSeq(s, k + 1, Len(s)), sep)

(***************************************************************************)
(* node:path, POSIX flavour.                                               *)
(***************************************************************************)
RECURSIVE NormalizeSegs(_, _, _)
NormalizeSegs(segs, acc, allowAboveRoot) ==
  IF Len(segs) = 0 THEN acc
  ELSE LET seg == segs[1]
           rest == Tail(segs)
       IN IF seg = <<>> \/ seg = <<".">> THEN NormalizeSegs(rest, acc, allowAboveRoot)
          ELSE IF seg = <<".", ".">>
               THEN IF Len(acc) > 0 /\ acc[Len(acc)] # <<".", ".">>
                    THEN NormalizeSegs(rest, SubSeq(acc, 1, Len(acc) - 1), allowAboveRoot)
                    ELSE IF allowAboveRoot
                         THEN NormalizeSegs(rest, Append(acc, seg), allowAboveRoot)
                         ELSE NormalizeSegs(rest, acc, allowAboveRoot)
               ELSE NormalizeSegs(rest, Append(acc, seg), allowAboveRoot)

PathNormalize(p) ==
  IF Len(p) = 0 THEN <<".">>
  ELSE LET isAbsolute == StartsWith(p, "/")
           trailingSeparator == EndsWith(p, "/")
           body == JoinWith(NormalizeSegs(SplitOn(p, "/"), <<>>, ~isAbsolute), "/")
           body1 == IF Len(body) = 0 /\ ~isAbsolute THEN <<".">> ELSE body
           body2 == IF Len(body1) > 0 /\ trailingSeparator THEN body1 \o <<"/">> ELSE body1
       IN IF isAbsolute THEN <<"/">> \o body2 ELSE body2

RECURSIVE NonEmptyParts(_)
NonEmptyParts(parts) ==
  IF Len(parts) = 0 THEN <<>>
  ELSE IF Len(parts[1]) = 0 THEN NonEmptyParts(Tail(parts))
  ELSE <<parts[1]>> \o NonEmptyParts(Tail(parts))

PathJoin(parts) ==
  LET used == NonEmptyParts(parts)
  IN IF Len(used) = 0 THEN <<".">> ELSE PathNormalize(JoinWith(used, "/"))

RECURSIVE StripTrailingSlashes(_)
StripTrailingSlashes(p) ==
  IF Len(p) > 1 /\ EndsWith(p, "/") THEN StripTrailingSlashes(SubSeq(p, 1, Len(p) - 1)) ELSE p

LastSlash(p) ==
  IF \E i \in 1..Len(p) : p[i] = "/"
  THEN CHOOSE i \in 1..Len(p) : p[i] = "/" /\ \A j \in (i + 1)..Len(p) : p[j] # "/"
  ELSE 0

PathDirname(p) ==
  IF Len(p) = 0 THEN <<".">>
  ELSE LET q == StripTrailingSlashes(p)
           k == LastSlash(q)
       IN IF k <= 1 THEN (IF StartsWith(q, "/") THEN <<"/">> ELSE <<".">>)
          ELSE IF k = 2 /\ StartsWith(q, "/") THEN <<"/", "/">>
          ELSE SubSeq(q, 1, k - 1)

PathBasenameNoExt(p) ==
  LET q == StripTrailingSlashes(p)
  IN IF q = <<"/">> THEN <<>> ELSE SubSeq(q, LastSlash(q) + 1, Len(q))

PathExtname(p) ==
  LET b == PathBasenameNoExt(p)
      dots == {i \in 1..Len(b) : b[i] = "."}
  IN IF dots = {} THEN <<>>
     ELSE LET k == CHOOSE i \in dots : \A j \in dots : j <= i
          IN IF k = 1 \/ b = <<".", ".">> THEN <<>> ELSE SubSeq(b, k, Len(b))

PathBasename(p, ext) ==
  LET b == PathBasenameNoExt(p)
      n == Len(b)
      m == Len(ext)
  IN IF m > 0 /\ m < n /\ SubSeq(b, n - m + 1, n) = ext THEN SubSeq(b, 1, n - m) ELSE b

(***************************************************************************)
(* Values of the parsed JSON document.  A value carries its JavaScript     *)
(* type; a string carries its characters, a number its value, and an       *)
(* object whether String() can convert it to a primitive.                  *)
(***************************************************************************)
Undefined == [t |-> "undefined", s |-> <<>>, n |-> 0]
Null == [t |-> "null", s |-> <<>>, n |-> 0]
Str(chars) == [t |-> "string", s |-> chars, n |-> 0]
Num(k) == [t |-> "number", s |-> <<>>, n |-> k]
Bool(b) == [t |-> "boolean", s |-> <<>>, n |-> IF b THEN 1 ELSE 0]
PlainObject == [t |-> "object", s |-> <<>>, n |-> 0]
NoPrimitiveObject == [t |-> "object", s |-> <<>>, n |-> 1]

Digit(d) == <<"0", "1", "2", "3", "4", "5", "6", "7", "8", "9">>[d + 1]

RECURSIVE NatToString(_)
NatToString(k) == IF k < 10 THEN <<Digit(k)>> ELSE NatToString(k \div 10) \o <<Digit(k % 10)>>

\* x ?? "" : undefined and null are replaced by the empty string.
Coalesce(v) == IF v.t \in {"undefined", "null"} THEN Str(<<>>) ELSE v

\* String(x) throws a TypeError for an object whose toString and valueOf give no primitive.
StringThrows(v) == v.t = "object" /\ v.n = 1

JsString(v) ==
  CASE v.t = "string" -> v.s
    [] v.t = "number" -> NatToString(v.n)
    [] v.t = "boolean" -> IF v.n = 1 THEN <<"t", "r", "u", "e">> ELSE <<"f", "a", "l", "s", "e">>
    [] v.t = "undefined" -> <<"u", "n", "d", "e", "f", "i", "n", "e", "d">>
    [] v.t = "null" -> <<"n", "u", "l", "l">>
    [] OTHER -> <<"[", "o", "b", "j", "e", "c", "t", " ", "O", "b", "j", "e", "c", "t", "]">>

\* item?.key : undefined when the item is null or not an object.
Field(item, key) == IF item.t = "object" THEN item.f[key] ELSE Undefined

(***************************************************************************)
(* The pure functions of generate-gallery.mjs.                             *)
(***************************************************************************)
PUBLIC_DIR == PathJoin(<<PROJECT_ROOT, <<"p", "u", "b", "l", "i", "c">>>>)
THUMBS_PUBLIC_DIR ==
  PathJoin(<<PUBLIC_DIR, <<"g", "a", "l", "l", "e", "r", "y">>, <<"t", "h", "u", "m", "b", "s">>>>)
GENERATED_DIR ==
  PathJoin(<<PROJECT_ROOT, <<"s", "r", "c">>, <<"g", "e", "n", "e", "r", "a", "t", "e", "d">>>>)

\* The argument is a JSON value; the result is a string.
ensureLeadingSlash(p) ==
  IF p.t # "string" THEN <<>>
  ELSE IF StartsWith(p.s, "/") THEN p.s ELSE <<"/">> \o p.s

stripLeadingSlash(p) == IF StartsWith(p, "/") THEN Tail(p) ELSE p

normalizeUrlPath(p) == ReplaceAllChar(ensureLeadingSlash(p), "\\", "/")

toThumbUrl(srcUrl) ==
  LET srcNoSlash == stripLeadingSlash(normalizeUrlPath(Str(srcUrl)))
      srcDir == PathDirname(srcNoSlash)
      base == PathBasename(srcNoSlash, PathExtname(srcNoSlash))
      rel == PathJoin(<<<<"g", "a", "l", "l", "e", "r", "y">>, <<"t", "h", "u", "m", "b", "s">>,
                        srcDir, base \o <<".", "j", "p", "g">>>>)
  IN ReplaceAllChar(<<"/">> \o rel, "\\", "/")

toFsPathFromPublicUrl(urlPath) ==
  LET rel == stripLeadingSlash(normalizeUrlPath(Str(urlPath)))
  IN PathJoin(<<PUBLIC_DIR, rel>>)

isNonEmptyString(x) == x.t = "string" /\ Len(Trim(x.s)) > 0

UpperCase == <<"A", "B", "C", "D", "E", "F", "G", "H", "I", "J", "K", "L", "M",
               "N", "O", "P", "Q", "R", "S", "T", "U", "V", "W", "X", "Y", "Z">>
LowerCase == <<"a", "b", "c", "d", "e", "f", "g", "h", "i", "j", "k", "l", "m",
               "n", "o", "p", "q", "r", "s", "t", "u", "v", "w", "x", "y", "z">>

ToLowerChar(c) ==
  IF \E i \in 1..26 : UpperCase[i] = c
  THEN LowerCase[CHOOSE i \in 1..26 : UpperCase[i] = c]
  ELSE c

ToLowerCase(s) == [i \in 1..Len(s) |-> ToLowerChar(s[i])]

IsIdChar(c) ==
  \/ \E i \in 1..26 : LowerCase[i] = c
  \/ \E d \in 0..9 : Digit(d) = c
  \/ c \in {"-", "_"}

RECURSIVE KeepIdChars(_)
KeepIdChars(s) ==
  IF Len(s) = 0 THEN <<>>
  ELSE IF IsIdChar(s[1]) THEN <<s[1]>> \o KeepIdChars(Tail(s))
  ELSE KeepIdChars(Tail(s))

RECURSIVE CollapseDashes(_)
CollapseDashes(s) ==
  IF Len(s) < 2 THEN s
  ELSE IF s[1] = "-" /\ s[2] = "-" THEN CollapseDashes(Tail(s))
  ELSE <<s[1]>> \o CollapseDashes(Tail(s))

StripEdgeDash(s) ==
  LET a == IF StartsWith(s, "-") THEN Tail(s) ELSE s
  IN IF EndsWith(a, "-") THEN SubSeq(a, 1, Len(a) - 1) ELSE a

stableIdFromSrc(src) ==
  LET normalized == ToLowerCase(normalizeUrlPath(Str(src)))
  IN StripEdgeDash(CollapseDashes(KeepIdChars(
       ReplaceAllChar(ReplaceAllChar(normalized, "/", "-"), ".", "-"))))

(***************************************************************************)
(* IEEE-754 double arithmetic, as far as line 119 uses it:                 *)
(* Math.round((height / width) * thumbWidth) on positive integers.         *)
(* A double is a 53-bit mantissa (most significant bit first) and a binary *)
(* exponent: its value is mantissa * 2^e.  Division and multiplication     *)
(* round to nearest, ties to even.                                         *)
(***************************************************************************)
MantissaBits == 53

RECURSIVE Pow2Below(_, _, _)
\* the largest k with d * 2^k <= n, for n >= d >= 1
Pow2Below(n, d, k) == IF 2 * d <= n THEN Pow2Below(n, 2 * d, k + 1) ELSE k

RECURSIVE Pow2Reach(_, _, _)
\* the least j with n * 2^j >= d, for n >= 1
Pow2Reach(n, d, j) == IF n >= d THEN j ELSE Pow2Reach(2 * n, d, j + 1)

RECURSIVE Times2(_, _)
Times2(n, k) == IF k = 0 THEN n ELSE Times2(2 * n, k - 1)

RECURSIVE DivBits(_, _, _)
DivBits(r, d, k) ==
  IF k = 0 THEN <<>>
  ELSE LET b == IF 2 * r >= d THEN 1 ELSE 0
       IN <<b>> \o DivBits(2 * r - b * d, d, k - 1)

RECURSIVE DivRem(_, _, _)
DivRem(r, d, k) ==
  IF k = 0 THEN r
  ELSE LET b == IF 2 * r >= d THEN 1 ELSE 0
       IN DivRem(2 * r - b * d, d, k - 1)

RECURSIVE IncBits(_)
\* mantissa + 1; the result is one bit longer when every bit was 1
IncBits(bits) ==
  IF Len(bits) = 0 THEN <<1>>
  ELSE IF bits[Len(bits)] = 0 THEN SubSeq(bits, 1, Len(bits) - 1) \o <<1>>
  ELSE IncBits(SubSeq(bits, 1, Len(bits) - 1)) \o <<0>>

\* round a mantissa of any length >= 53 to 53 bits; sticky tells of non-zero bits below it
RoundToDouble(bits, e, sticky) ==
  LET d == Len(bits) - MantissaBits
      keep == SubSeq(bits, 1, MantissaBits)
      dropped == SubSeq(bits, MantissaBits + 1, Len(bits))
      half == d > 0 /\ dropped[1] = 1
      below == sticky \/ \E i \in 2..d : dropped[i] = 1
      up == half /\ (below \/ keep[MantissaBits] = 1)
      inc == IncBits(keep)
  IN IF ~up THEN [m |-> keep, e |-> e + d]
     ELSE IF Len(inc) > MantissaBits THEN [m |-> SubSeq(inc, 1, MantissaBits), e |-> e + d + 1]
     ELSE [m |-> inc, e |-> e + d]

\* the double nearest to n / d, for integers n, d >= 1
FloatDiv(n, d) ==
  LET e0 == IF n >= d THEN Pow2Below(n, d, 0) ELSE 0 - Pow2Reach(n, d, 0)
      num == IF e0 < 0 THEN Times2(n, 0 - e0) ELSE n
      den == IF e0 > 0 THEN Times2(d, e0) ELSE d
      bits == <<1>> \o DivBits(num - den, den, MantissaBits)
      rem == DivRem(num - den, den, MantissaBits)
  IN RoundToDouble(bits, e0 - MantissaBits, rem > 0)

RECURSIVE Reverse(_)
Reverse(q) == IF Len(q) = 0 THEN <<>> ELSE Reverse(Tail(q)) \o <<q[1]>>

RECURSIVE MulBits(_, _, _)
\* least significant bit first
MulBits(bits, t, carry) ==
  IF Len(bits) = 0
  THEN IF carry = 0 THEN <<>> ELSE <<carry % 2>> \o MulBits(bits, t, carry \div 2)
  ELSE LET x == bits[1] * t + carry
       IN <<x % 2>> \o MulBits(Tail(bits), t, x \div 2)

\* the double nearest to f * t, for an integer t >= 1
FloatMulInt(f, t) == RoundToDouble(Reverse(MulBits(Reverse(f.m), t, 0)), f.e, FALSE)

RECURSIVE BitsToNat(_)
BitsToNat(bits) ==
  IF Len(bits) = 0 THEN 0 ELSE 2 * BitsToNat(SubSeq(bits, 1, Len(bits) - 1)) + bits[Len(bits)]

\* Math.round of a positive double below 2^31: nearest integer, ties towards +Infinity
MathRound(f) ==
  LET nInt == MantissaBits + f.e
  IN IF nInt < 0 THEN 0
     ELSE IF nInt >= MantissaBits THEN Times2(BitsToNat(f.m), f.e)
     ELSE BitsToNat(SubSeq(f.m, 1, nInt)) + f.m[nInt + 1]

MathMin(a, b) == IF a < b THEN a ELSE b
MathMax(a, b) == IF a > b THEN a ELSE b

\* lines 116-120
ThumbWidthOf(width) == MathMin(THUMB_WIDTH, width)
ThumbHeightOf(width, height) ==
  MathMax(1, MathRound(FloatMulInt(FloatDiv(height, width), ThumbWidthOf(width))))

(***************************************************************************)
(* The filesystem: a function from absolute paths to entries.  The root    *)
(* directory always exists.  A file entry of a source image carries its    *)
(* pixel size (w, h; 0 when the header gives none), its content version    *)
(* (ver) and whether the codec can decode it (ok).  A file entry written   *)
(* by the thumbnail encoder carries the size it was encoded at, the path   *)
(* and version of the source it was encoded from, and ok = FALSE when the  *)
(* encoder stopped before the file was complete.                           *)
(***************************************************************************)
NoEntry == [kind |-> "none", mtime |-> 0, w |-> 0, h |-> 0, ver |-> 0, ok |-> FALSE, from |-> <<>>]
DirEntry(t) == [kind |-> "dir", mtime |-> t, w |-> 0, h |-> 0, ver |-> 0, ok |-> TRUE, from |-> <<>>]
ImageFile(t, w, h, ok) == [kind |-> "file", mtime |-> t, w |-> w, h |-> h, ver |-> 0, ok |-> ok, from |-> <<>>]
ThumbFile(t, w, h, ver, ok, from) ==
  [kind |-> "file", mtime |-> t, w |-> w, h |-> h, ver |-> ver, ok |-> ok, from |-> from]

Root == <<"/">>

\* fs.stat: a trailing slash resolves only to a directory (ENOTDIR otherwise)
Lookup(f, p) ==
  LET q == StripTrailingSlashes(p)
      e == IF q = Root THEN DirEntry(0) ELSE IF q \in DOMAIN f THEN f[q] ELSE NoEntry
  IN IF EndsWith(p, "/") /\ e.kind = "file" THEN NoEntry ELSE e

ParentOf(p) == PathDirname(StripTrailingSlashes(p))

Put(f, p, e) == [q \in DOMAIN f \cup {p} |-> IF q = p THEN e ELSE f[q]]

\* creating a new name in a directory sets the directory's mtime
TouchDir(f, d, now) == IF d \in DOMAIN f THEN [f EXCEPT ![d].mtime = now] ELSE f

RECURSIVE MkdirSegs(_, _, _, _)
\* fs.mkdir(p, {recursive: true}), one path segment after the other
MkdirSegs(f, at, segs, now) ==
  IF Len(segs) = 0 THEN [ok |-> TRUE, fs |-> f]
  ELSE LET child == IF at = Root THEN at \o segs[1] ELSE at \o <<"/">> \o segs[1]
           e == Lookup(f, child)
       IN IF e.kind = "file" THEN [ok |-> FALSE, fs |-> f]
          ELSE IF e.kind = "dir" THEN MkdirSegs(f, child, Tail(segs), now)
          ELSE MkdirSegs(Put(TouchDir(f, at, now), child, DirEntry(now)), child, Tail(segs), now)

Mkdirp(f, p, now) == MkdirSegs(f, Root, NonEmptyParts(SplitOn(p, "/")), now)

\* open(p, O_WRONLY | O_CREAT | O_TRUNC) can succeed
CanWriteFile(f, p) ==
  /\ ~EndsWith(p, "/")
  /\ Lookup(f, p).kind # "dir"
  /\ Lookup(f, ParentOf(p)).kind = "dir"

WriteFile(f, p, e, now) ==
  IF Lookup(f, p).kind = "none" THEN Put(TouchDir(f, ParentOf(p), now), p, e) ELSE Put(f, p, e)

\* lines 43-50: the mtime, or -1 when fs.stat throws
fileMtimeMs(f, filePath) ==
  IF Lookup(f, filePath).kind = "none" THEN 0 - 1 ELSE Lookup(f, filePath).mtime

(***************************************************************************)
(* Inputs: the descriptor document and the files on disk.                  *)
(***************************************************************************)
Obj(src, title, shotUsing, location, description) ==
  [t |-> "object",
   f |-> [src |-> src, title |-> title, shotUsing |-> shotUsing,
          location |-> location, description |-> description]]

TextKeys == {"title", "shotUsing", "location", "description"}

UrlAJpg == <<"/", "a", ".", "j", "p", "g">>
UrlBPngNoSlash == <<"b", ".", "p", "n", "g">>
UrlDir == <<"/", "d">>
UrlNoDims == <<"/", "c", ".", "j", "p", "g">>
\* differs from UrlAJpg by the case of its extension only
UrlAJpgUpper == <<"/", "a", ".", "J", "P", "G">>
\* an image inside a directory of public/ whose name ends in .jpg
UrlInDirBJpg == <<"/", "b", ".", "j", "p", "g", "/", "x", ".", "p", "n", "g">>

Items ==
  { Obj(Str(UrlAJpg), Str(<<" ", "h", "i", " ">>), Undefined, Null, Str(<<>>)),
    Obj(Str(UrlBPngNoSlash), Num(5), Bool(TRUE), PlainObject, Str(<<" ", "x">>)),
    Obj(Str(UrlAJpg), Undefined, Undefined, Undefined, NoPrimitiveObject),
    Obj(Str(<<>>), Undefined, Undefined, Undefined, Undefined),
    Obj(Num(5), Str(<<"t">>), Undefined, Undefined, Undefined),
    Obj(Str(UrlDir), Undefined, Undefined, Undefined, Undefined),
    Obj(Str(UrlNoDims), Undefined, Undefined, Undefined, Undefined),
    Obj(Str(UrlAJpgUpper), Undefined, Undefined, Undefined, Undefined),
    Obj(Str(UrlInDirBJpg), Undefined, Undefined, Undefined, Undefined) }

RECURSIVE SeqsUpTo(_, _)
SeqsUpTo(S, n) ==
  IF n = 0 THEN {<<>>}
  ELSE LET shorter == SeqsUpTo(S, n - 1)
       IN shorter \cup {Append(q, x) : q \in {r \in shorter : Len(r) = n - 1}, x \in S}

\* gallery.json: missing, not JSON, JSON that is not an array, or an array of items
Docs ==
  {[kind |-> k, items |-> <<>>] : k \in {"absent", "unparsable", "notArray"}}
    \cup {[kind |-> "array", items |-> q] : q \in SeqsUpTo(Items, MaxLen)}

\* public/ holds a.jpg, a.JPG, b.png, c.jpg and the directory b.jpg with
\* x.png in it.  On a fresh checkout (readable) it also holds the directory d,
\* and the codec reads c.jpg but finds no size in it; otherwise nothing is at
\* public/d and the codec cannot read c.jpg at all.
SourceFiles(readable) ==
  LET f0 == Mkdirp(<<>>, IF readable THEN PathJoin(<<PUBLIC_DIR, <<"d">>>>) ELSE PUBLIC_DIR, 0).fs
      f1 == Put(f0, toFsPathFromPublicUrl(UrlAJpg), ImageFile(1, 912, 494, TRUE))
      f2 == Put(f1, toFsPathFromPublicUrl(UrlBPngNoSlash), ImageFile(0, 2000, 1000, TRUE))
      f3 == Put(f2, toFsPathFromPublicUrl(UrlNoDims), ImageFile(0, 0, 0, readable))
      f4 == Put(f3, toFsPathFromPublicUrl(UrlAJpgUpper), ImageFile(0, 800, 600, TRUE))
      f5 == Mkdirp(f4, PathDirname(toFsPathFromPublicUrl(UrlInDirBJpg)), 0).fs
  IN Put(f5, toFsPathFromPublicUrl(UrlInDirBJpg), ImageFile(0, 400, 300, TRUE))

\* the disk after an earlier build: it holds the thumbnail of /a.jpg, older
\* than (t = 0) or as old as (t = 1) its source
WithThumb(t) ==
  LET absThumb == toFsPathFromPublicUrl(toThumbUrl(UrlAJpg))
      absSrc == toFsPathFromPublicUrl(UrlAJpg)
      src == SourceFiles(t = 0)[absSrc]
      f == Mkdirp(SourceFiles(t = 0), THUMBS_PUBLIC_DIR, 0).fs
  IN Put(f, absThumb,
         ThumbFile(t, ThumbWidthOf(src.w), ThumbHeightOf(src.w, src.h),
                   IF t < src.mtime THEN 0 - 1 ELSE 0, TRUE, absSrc))

NoManifest == [state |-> "absent", generatedAt |-> 0, thumb |-> <<>>, photos |-> <<>>]

ThumbPolicy == [width |-> THUMB_WIDTH, quality |-> THUMB_QUALITY, format |-> "jpeg"]

\* a manifest left by an earlier build of a list that held one photo
OldManifest ==
  [state |-> "ok", generatedAt |-> 0, thumb |-> ThumbPolicy,
   photos |-> <<[id |-> <<"o", "l", "d">>, src |-> <<"/", "o", "l", "d">>,
                 thumbSrc |-> toThumbUrl(<<"/", "o", "l", "d">>),
                 width |-> 10, height |-> 10, thumbWidth |-> 10, thumbHeight |-> 10,
                 title |-> <<>>, shotUsing |-> <<>>, location |-> <<>>, description |-> <<>>]>>]

(***************************************************************************)
(* State.                                                                  *)
(*   doc, fs, manifest, clock : the descriptor document, the disk, the     *)
(*     manifest document and the time of the filesystem clock              *)
(*   pc, step, idx, parsed, photos, cur, built, err, exitCode : the        *)
(*     position of main(), its local variables and the outcome of the run  *)
(*   runs, dirty : the number of the run and whether a source file was     *)
(*     modified since the previous run ended                               *)
(*   hist : what the run has done so far (history)                         *)
(*   arg, out : the argument and the result of a path function called on   *)
(*     its own (PathSpec); main() leaves them alone                        *)
(***************************************************************************)
VARIABLES doc, fs, manifest, clock, pc, step, idx, parsed, photos, cur, built,
          err, exitCode, runs, dirty, hist, arg, out

vars == <<doc, fs, manifest, clock, pc, step, idx, parsed, photos, cur, built,
          err, exitCode, runs, dirty, hist, arg, out>>

NoOut == [fn |-> "none", val |-> <<>>]

NoCur ==
  [src |-> <<>>, title |-> <<>>, shotUsing |-> <<>>, location |-> <<>>, description |-> <<>>,
   absSrc |-> <<>>, thumbSrc |-> <<>>, absThumb |-> <<>>, srcMtime |-> 0, thumbMtime |-> 0,
   width |-> 0, height |-> 0, thumbWidth |-> 0, thumbHeight |-> 0]

NoErr == [kind |-> "none", idx |-> 0 - 1, path |-> <<>>]

\* the history of a run:
\*   trace     the positions main() went through, as <<pc, idx>>
\*   effects   the writes to the disk, in order
\*   statted   the indexes whose source path was checked with fs.stat
\*   judged    per processed index, the value of shouldGenerate
\*   regen     the indexes whose thumbnail was encoded
\*   manifest0, fs0   the manifest and the disk when the run started
\*   cleanStart  no source file changed between the previous run and this one
\*   prevOk    the previous run ended in Done
NewHist(m, f, clean, prevOk) ==
  [trace |-> <<<<"Init", 0>>>>, effects |-> <<>>, statted |-> {}, judged |-> <<>>, regen |-> {},
   manifest0 |-> m, fs0 |-> f, cleanStart |-> clean, prevOk |-> prevOk]

Init ==
  /\ doc \in Docs
  /\ \/ fs = SourceFiles(TRUE) /\ manifest = NoManifest
     \/ \E t \in 0..1 : fs = WithThumb(t) /\ manifest = OldManifest
  /\ clock = 1
  /\ pc = "Init"
  /\ step = "none"
  /\ idx = 0
  /\ parsed = <<>>
  /\ photos = <<>>
  /\ cur = NoCur
  /\ built = NoManifest
  /\ err = NoErr
  /\ exitCode = 0
  /\ runs = 1
  /\ dirty = FALSE
  /\ hist = NewHist(manifest, fs, FALSE, FALSE)
  /\ arg = Undefined
  /\ out = NoOut

Effect(op, i, path) == [op |-> op, idx |-> i, path |-> path]

\* a handler that logs the error and leaves the exit code alone
FailExitZero(kind, i, path) ==
  /\ pc' = "Failed"
  /\ step' = "none"
  /\ err' = [kind |-> kind, idx |-> i, path |-> path]
  /\ exitCode' = 0

\* the error is caught where it is thrown and logged, and main() goes on
FailAndSkip(kind, i, path) ==
  /\ pc' = pc
  /\ step' = "push"
  /\ err' = [kind |-> kind, idx |-> i, path |-> path]
  /\ exitCode' = exitCode

\* main() rejects and the handler of lines 161-165 runs
Fail(kind, i, path) ==
  /\ pc' = "Failed"
  /\ step' = "none"
  /\ err' = [kind |-> kind, idx |-> i, path |-> path]
  /\ exitCode' = 1

GoTo(newPc, newIdx, h) == [h EXCEPT !.trace = Append(@, <<newPc, newIdx>>)]

\* line 68: fs.readFile(SOURCE_JSON)
ReadSource ==
  /\ pc = "Init"
  /\ IF doc.kind = "absent"
     THEN /\ Fail("ReadError", 0 - 1, <<>>)
          /\ hist' = GoTo("Failed", idx, hist)
     ELSE /\ pc' = "Reading"
          /\ hist' = GoTo("Reading", idx, hist)
          /\ UNCHANGED <<step, err, exitCode>>
  /\ UNCHANGED <<arg, out, doc, fs, manifest, clock, idx, parsed, photos, cur, built, runs, dirty>>

\* the output directories are made first, the document is looked at after
ParseAndPrepareMkdirFirst ==
  /\ pc = "Reading"
  /\ LET mk1 == Mkdirp(fs, GENERATED_DIR, clock)
         mk2 == Mkdirp(mk1.fs, THUMBS_PUBLIC_DIR, clock)
         made == IF mk2.fs # fs THEN <<Effect("mkdir", 0 - 1, <<>>)>> ELSE <<>>
     IN IF doc.kind = "unparsable"
        THEN /\ Fail("SyntaxError", 0 - 1, <<>>)
             /\ fs' = mk2.fs
             /\ hist' = [GoTo("Failed", idx, hist) EXCEPT !.effects = @ \o made]
             /\ UNCHANGED <<parsed, idx>>
        ELSE IF doc.kind # "array"
        THEN /\ Fail("NotArray", 0 - 1, <<>>)
             /\ fs' = mk2.fs
             /\ hist' = [GoTo("Failed", idx, hist) EXCEPT !.effects = @ \o made]
             /\ UNCHANGED <<parsed, idx>>
        ELSE IF ~mk1.ok \/ ~mk2.ok
        THEN /\ Fail("MkdirError", 0 - 1, <<>>)
             /\ fs' = mk2.fs
             /\ hist' = [GoTo("Failed", idx, hist) EXCEPT !.effects = @ \o made]
             /\ UNCHANGED <<parsed, idx>>
        ELSE /\ parsed' = doc.items
             /\ fs' = mk2.fs
             /\ idx' = 0
             /\ IF Len(doc.items) = 0
                THEN /\ pc' = "Assembling"
                     /\ step' = "none"
                     /\ hist' = [GoTo("Assembling", 0, hist) EXCEPT !.effects = @ \o made]
                ELSE /\ pc' = "Processing"
                     /\ step' = "validate"
                     /\ hist' = [GoTo("Processing", 0, hist) EXCEPT !.effects = @ \o made]
             /\ UNCHANGED <<err, exitCode>>
  /\ UNCHANGED <<arg, out, doc, manifest, clock, photos, cur, built, runs, dirty>>

\* lines 69-76: JSON.parse, the array check and the two mkdir calls
ParseAndPrepare ==
  /\ pc = "Reading"
  /\ LET mk1 == Mkdirp(fs, GENERATED_DIR, clock)
         mk2 == Mkdirp(mk1.fs, THUMBS_PUBLIC_DIR, clock)
         made == IF mk2.fs # fs THEN <<Effect("mkdir", 0 - 1, <<>>)>> ELSE <<>>
     IN IF doc.kind = "unparsable"
        THEN /\ Fail("SyntaxError", 0 - 1, <<>>)
             /\ hist' = GoTo("Failed", idx, hist)
             /\ UNCHANGED <<fs, parsed, idx>>
        ELSE IF doc.kind # "array"
        THEN /\ Fail("NotArray", 0 - 1, <<>>)
             /\ hist' = GoTo("Failed", idx, hist)
             /\ UNCHANGED <<fs, parsed, idx>>
        ELSE IF ~mk1.ok \/ ~mk2.ok
        THEN /\ Fail("MkdirError", 0 - 1, <<>>)
             /\ fs' = mk2.fs
             /\ hist' = [GoTo("Failed", idx, hist) EXCEPT !.effects = @ \o made]
             /\ UNCHANGED <<parsed, idx>>
        ELSE /\ parsed' = doc.items
             /\ fs' = mk2.fs
             /\ idx' = 0
             /\ IF Len(doc.items) = 0
                THEN /\ pc' = "Assembling"
                     /\ step' = "none"
                     /\ hist' = [GoTo("Assembling", 0, hist) EXCEPT !.effects = @ \o made]
                ELSE /\ pc' = "Processing"
                     /\ step' = "validate"
                     /\ hist' = [GoTo("Processing", 0, hist) EXCEPT !.effects = @ \o made]
             /\ UNCHANGED <<err, exitCode>>
  /\ UNCHANGED <<arg, out, doc, manifest, clock, photos, cur, built, runs, dirty>>

\* lines 81-89: the fields of the item and the check of src
Validate ==
  /\ pc = "Processing" /\ step = "validate"
  /\ LET item == parsed[idx + 1]
         src == normalizeUrlPath(Coalesce(Field(item, "src")))
         text(k) == Trim(JsString(Coalesce(Field(item, k))))
     IN IF \E k \in TextKeys : StringThrows(Coalesce(Field(item, k)))
        THEN /\ Fail("TypeError", 0 - 1, <<>>)
             /\ hist' = GoTo("Failed", idx, hist)
             /\ UNCHANGED cur
        ELSE IF ~isNonEmptyString(Str(src))
        THEN /\ Fail("InvalidDescriptor", idx, <<>>)
             /\ hist' = GoTo("Failed", idx, hist)
             /\ UNCHANGED cur
        ELSE /\ cur' = [cur EXCEPT !.src = src, !.title = text("title"),
                                   !.shotUsing = text("shotUsing"),
                                   !.location = text("location"),
                                   !.description = text("description")]
             /\ step' = "stat"
             /\ UNCHANGED <<pc, err, exitCode, hist>>
  /\ UNCHANGED <<arg, out, doc, fs, manifest, clock, idx, parsed, photos, built, runs, dirty>>

\* a statSync result that only tells the path exists
IsFileOrDirectory(e) == e.kind # "none"

\* line 93: absSrcStat?.isFile()
IsFile(e) == e.kind = "file"

\* lines 91-97: the source must be a regular file
CheckSource ==
  /\ pc = "Processing" /\ step = "stat"
  /\ LET absSrc == toFsPathFromPublicUrl(cur.src)
         h == [hist EXCEPT !.statted = @ \cup {idx}]
     IN IF ~IsFile(Lookup(fs, absSrc))
        THEN /\ Fail("MissingSourceFile", idx, absSrc)
             /\ hist' = GoTo("Failed", idx, h)
             /\ UNCHANGED cur
        ELSE /\ cur' = [cur EXCEPT !.absSrc = absSrc]
             /\ step' = "prepare"
             /\ hist' = h
             /\ UNCHANGED <<pc, err, exitCode>>
  /\ UNCHANGED <<arg, out, doc, fs, manifest, clock, idx, parsed, photos, built, runs, dirty>>

\* lines 99-104: the thumbnail path, its directory and the two mtimes
PrepareThumb ==
  /\ pc = "Processing" /\ step = "prepare"
  /\ LET thumbSrc == toThumbUrl(cur.src)
         absThumb == toFsPathFromPublicUrl(thumbSrc)
         mk == Mkdirp(fs, PathDirname(absThumb), clock)
         made == IF mk.fs # fs THEN <<Effect("mkdir", idx, PathDirname(absThumb))>> ELSE <<>>
     IN /\ fs' = mk.fs
        /\ IF ~mk.ok
           THEN /\ Fail("MkdirError", 0 - 1, <<>>)
                /\ hist' = [GoTo("Failed", idx, hist) EXCEPT !.effects = @ \o made]
                /\ UNCHANGED cur
           ELSE /\ cur' = [cur EXCEPT !.thumbSrc = thumbSrc, !.absThumb = absThumb,
                                      !.srcMtime = fileMtimeMs(mk.fs, cur.absSrc),
                                      !.thumbMtime = fileMtimeMs(mk.fs, absThumb)]
                /\ step' = "meta"
                /\ hist' = [hist EXCEPT !.effects = @ \o made]
                /\ UNCHANGED <<pc, err, exitCode>>
  /\ UNCHANGED <<arg, out, doc, manifest, clock, idx, parsed, photos, built, runs, dirty>>

\* lines 106-114: the pixel size of the source
ReadMeta ==
  /\ pc = "Processing" /\ step = "meta"
  /\ LET e == Lookup(fs, cur.absSrc)
         width == e.w
         height == e.h
     IN IF ~e.ok
        THEN /\ Fail("CodecError", 0 - 1, <<>>)
             /\ hist' = GoTo("Failed", idx, hist)
             /\ UNCHANGED cur
        ELSE IF width = 0 \/ height = 0
        THEN /\ Fail("UnreadableImage", 0 - 1, cur.src)
             /\ hist' = GoTo("Failed", idx, hist)
             /\ UNCHANGED cur
        ELSE /\ cur' = [cur EXCEPT !.width = width, !.height = height]
             /\ step' = "generate"
             /\ UNCHANGED <<pc, err, exitCode, hist>>
  /\ UNCHANGED <<arg, out, doc, fs, manifest, clock, idx, parsed, photos, built, runs, dirty>>

\* the comparison turned round
shouldGenerateReversed(srcMtime, thumbMtime) == thumbMtime < 0 \/ srcMtime < thumbMtime

\* equal mtimes taken as stale
shouldGenerateOnTie(srcMtime, thumbMtime) == thumbMtime < 0 \/ srcMtime >= thumbMtime

\* no caching at all
shouldGenerateAlways(srcMtime, thumbMtime) == TRUE

\* line 122
shouldGenerate(srcMtime, thumbMtime) == thumbMtime < 0 \/ srcMtime > thumbMtime

\* a thumbnail that is kept is stamped with the time of the check
GenerateTouchingFresh ==
  /\ pc = "Processing" /\ step = "generate"
  /\ LET thumbWidth == ThumbWidthOf(cur.width)
         thumbHeight == ThumbHeightOf(cur.width, cur.height)
         stale == shouldGenerate(cur.srcMtime, cur.thumbMtime)
         ver == Lookup(fs, cur.absSrc).ver
         h == [hist EXCEPT !.judged = Append(@, stale)]
         wrote == Effect("thumb", idx, cur.absThumb)
     IN /\ cur' = [cur EXCEPT !.thumbWidth = thumbWidth, !.thumbHeight = thumbHeight]
        /\ IF ~stale
           THEN /\ step' = "push"
                /\ hist' = h
                /\ fs' = IF Lookup(fs, cur.absThumb).kind = "file"
                         THEN [fs EXCEPT ![cur.absThumb].mtime = clock]
                         ELSE fs
                /\ UNCHANGED <<pc, err, exitCode>>
           ELSE \/ /\ CanWriteFile(fs, cur.absThumb)
                   /\ fs' = WriteFile(fs, cur.absThumb,
                               ThumbFile(clock, thumbWidth, thumbHeight, ver, TRUE, cur.absSrc),
                               clock)
                   /\ step' = "push"
                   /\ hist' = [h EXCEPT !.regen = @ \cup {idx}, !.effects = Append(@, wrote)]
                   /\ UNCHANGED <<pc, err, exitCode>>
                \/ /\ Fail("ThumbnailWriteFailure", 0 - 1, <<>>)
                   /\ hist' = GoTo("Failed", idx, h)
                   /\ UNCHANGED fs
                \/ /\ CanWriteFile(fs, cur.absThumb)
                   /\ fs' = WriteFile(fs, cur.absThumb,
                               ThumbFile(clock, thumbWidth, thumbHeight, ver, FALSE, cur.absSrc),
                               clock)
                   /\ Fail("ThumbnailWriteFailure", 0 - 1, <<>>)
                   /\ hist' = [GoTo("Failed", idx, h) EXCEPT !.effects = Append(@, wrote)]
  /\ UNCHANGED <<arg, out, doc, manifest, clock, idx, parsed, photos, built, runs, dirty>>

\* lines 116-135: the thumbnail size, the staleness decision and the encode.
\* sharp's toFile writes straight to the destination path: it either completes,
\* or fails before the destination is opened, or fails after part of the
\* output has been written there.
Generate ==
  /\ pc = "Processing" /\ step = "generate"
  /\ LET thumbWidth == ThumbWidthOf(cur.width)
         thumbHeight == ThumbHeightOf(cur.width, cur.height)
         stale == shouldGenerate(cur.srcMtime, cur.thumbMtime)
         ver == Lookup(fs, cur.absSrc).ver
         h == [hist EXCEPT !.judged = Append(@, stale)]
         wrote == Effect("thumb", idx, cur.absThumb)
     IN /\ cur' = [cur EXCEPT !.thumbWidth = thumbWidth, !.thumbHeight = thumbHeight]
        /\ IF ~stale
           THEN /\ step' = "push"
                /\ hist' = h
                /\ UNCHANGED <<fs, pc, err, exitCode>>
           ELSE \/ /\ CanWriteFile(fs, cur.absThumb)
                   /\ fs' = WriteFile(fs, cur.absThumb,
                               ThumbFile(clock, thumbWidth, thumbHeight, ver, TRUE, cur.absSrc),
                               clock)
                   /\ step' = "push"
                   /\ hist' = [h EXCEPT !.regen = @ \cup {idx}, !.effects = Append(@, wrote)]
                   /\ UNCHANGED <<pc, err, exitCode>>
                \/ /\ Fail("ThumbnailWriteFailure", 0 - 1, <<>>)
                   /\ hist' = GoTo("Failed", idx, h)
                   /\ UNCHANGED fs
                \/ /\ CanWriteFile(fs, cur.absThumb)
                   /\ fs' = WriteFile(fs, cur.absThumb,
                               ThumbFile(clock, thumbWidth, thumbHeight, ver, FALSE, cur.absSrc),
                               clock)
                   /\ Fail("ThumbnailWriteFailure", 0 - 1, <<>>)
                   /\ hist' = [GoTo("Failed", idx, h) EXCEPT !.effects = Append(@, wrote)]
  /\ UNCHANGED <<arg, out, doc, manifest, clock, idx, parsed, photos, built, runs, dirty>>

PhotoOf(c) ==
  [id |-> stableIdFromSrc(c.src), src |-> c.src, thumbSrc |-> c.thumbSrc,
   width |-> c.width, height |-> c.height,
   thumbWidth |-> c.thumbWidth, thumbHeight |-> c.thumbHeight,
   title |-> c.title, shotUsing |-> c.shotUsing,
   location |-> c.location, description |-> c.description]

\* a list that grows at its head
PushPhotoFront(list, p) == <<p>> \o list

\* line 137: photos.push(...)
PushPhoto(list, p) == Append(list, p)

\* lines 137-150: photos.push and the next turn of the loop
Push ==
  /\ pc = "Processing" /\ step = "push"
  /\ photos' = PushPhoto(photos, PhotoOf(cur))
  /\ cur' = NoCur
  /\ idx' = idx + 1
  /\ IF idx + 1 < Len(parsed)
     THEN /\ step' = "validate"
          /\ hist' = GoTo("Processing", idx + 1, hist)
          /\ UNCHANGED pc
     ELSE /\ pc' = "Assembling"
          /\ step' = "none"
          /\ hist' = GoTo("Assembling", idx + 1, hist)
  /\ UNCHANGED <<arg, out, doc, fs, manifest, clock, parsed, built, err, exitCode, runs, dirty>>

\* lines 152-156
Assemble ==
  /\ pc = "Assembling"
  /\ built' = [state |-> "ok", generatedAt |-> clock, thumb |-> ThumbPolicy, photos |-> photos]
  /\ pc' = "Writing"
  /\ hist' = GoTo("Writing", idx, hist)
  /\ UNCHANGED <<arg, out, doc, fs, manifest, clock, step, idx, parsed, photos, cur, err, exitCode,
                 runs, dirty>>

\* a manifest file that fs.writeFile opened (and so emptied) but did not complete
Truncated(m) == [m EXCEPT !.state = "truncated", !.photos = <<>>]

\* a writer that reads the manifest on disk and adds the new photos to it
WriteManifestMerged ==
  /\ pc = "Writing"
  /\ manifest' = [built EXCEPT !.photos = manifest.photos \o @]
  /\ pc' = "Done"
  /\ hist' = [GoTo("Done", idx, hist) EXCEPT !.effects = Append(@, Effect("manifest", 0 - 1, <<>>))]
  /\ UNCHANGED <<step, err, exitCode>>
  /\ UNCHANGED <<arg, out, doc, fs, clock, idx, parsed, photos, cur, built, runs, dirty>>

\* line 158: fs.writeFile(MANIFEST_JSON) completes, or fails before or after
\* the file was opened
WriteManifest ==
  /\ pc = "Writing"
  /\ \/ /\ manifest' = built
        /\ pc' = "Done"
        /\ hist' = [GoTo("Done", idx, hist) EXCEPT !.effects = Append(@, Effect("manifest", 0 - 1, <<>>))]
        /\ UNCHANGED <<step, err, exitCode>>
     \/ /\ manifest' \in {manifest, Truncated(built)}
        /\ Fail("ManifestWriteFailure", 0 - 1, <<>>)
        /\ hist' = IF manifest' = manifest
                   THEN GoTo("Failed", idx, hist)
                   ELSE [GoTo("Failed", idx, hist) EXCEPT
                           !.effects = Append(@, Effect("manifest", 0 - 1, <<>>))]
  /\ UNCHANGED <<arg, out, doc, fs, clock, idx, parsed, photos, cur, built, runs, dirty>>

(***************************************************************************)
(* The environment: time passes, a source image is edited between two      *)
(* runs, and the build is run again.                                       *)
(***************************************************************************)
Ended == pc \in {"Done", "Failed"}

\* Only the order of timestamps matters to the build, and no source changes
\* while it runs: time is modelled as passing, by at most one tick, between
\* two runs.
Tick ==
  /\ Ended
  /\ runs < MaxRuns
  /\ clock <= runs
  /\ clock' = clock + 1
  /\ UNCHANGED <<arg, out, doc, fs, manifest, pc, step, idx, parsed, photos, cur, built, err,
                 exitCode, runs, dirty, hist>>

ReferencedSources ==
  {toFsPathFromPublicUrl(normalizeUrlPath(Coalesce(Field(doc.items[i], "src")))) :
     i \in 1..Len(doc.items)}

\* an editor saves a new version of a source image: the filesystem stamps it
\* with the current time.  A history holds one such edit.
ModifySource ==
  /\ Ended
  /\ runs < MaxRuns
  /\ \A p \in ReferencedSources : Lookup(fs, p).from # <<>> \/ Lookup(fs, p).ver <= 0
  /\ \E p \in ReferencedSources :
       /\ Lookup(fs, p).kind = "file"
       /\ Lookup(fs, p).from = <<>>
       /\ fs' = [fs EXCEPT ![p].ver = @ + 1, ![p].mtime = clock]
  /\ dirty' = TRUE
  /\ UNCHANGED <<arg, out, doc, manifest, clock, pc, step, idx, parsed, photos, cur, built, err,
                 exitCode, runs, hist>>

\* the script is started again: a new process, with fresh locals
NewRun ==
  /\ Ended
  /\ runs < MaxRuns
  /\ runs' = runs + 1
  /\ pc' = "Init"
  /\ step' = "none"
  /\ idx' = 0
  /\ parsed' = <<>>
  /\ photos' = <<>>
  /\ cur' = NoCur
  /\ built' = NoManifest
  /\ err' = NoErr
  /\ exitCode' = 0
  /\ dirty' = FALSE
  /\ hist' = NewHist(manifest, fs, ~dirty, pc = "Done")
  /\ UNCHANGED <<arg, out, doc, fs, manifest, clock>>

Next ==
  \/ ReadSource
  \/ ParseAndPrepare
  \/ Validate
  \/ CheckSource
  \/ PrepareThumb
  \/ ReadMeta
  \/ Generate
  \/ Push
  \/ Assemble
  \/ WriteManifest
  \/ Tick
  \/ ModifySource
  \/ NewRun

Spec == Init /\ [][Next]_vars

(***************************************************************************)
(* The path functions on their own: normalizeUrlPath and toThumbUrl are    *)
(* called once on an argument drawn from the JSON values a descriptor's    *)
(* src can hold.                                                           *)
(***************************************************************************)
UrlChars == {"/", ".", "a", "\\"}

UrlStrings == SeqsUpTo(UrlChars, MaxChars)

Args == {Str(s) : s \in UrlStrings} \cup {Undefined, Null, Num(5), Bool(TRUE), PlainObject}

PathInit ==
  /\ arg \in Args
  /\ out = NoOut
  /\ doc = [kind |-> "absent", items |-> <<>>]
  /\ fs = SourceFiles(TRUE)
  /\ manifest = NoManifest
  /\ clock = 1
  /\ pc = "Init"
  /\ step = "none"
  /\ idx = 0
  /\ parsed = <<>>
  /\ photos = <<>>
  /\ cur = NoCur
  /\ built = NoManifest
  /\ err = NoErr
  /\ exitCode = 0
  /\ runs = 1
  /\ dirty = FALSE
  /\ hist = NewHist(manifest, fs, FALSE, FALSE)

\* lines 24-28, on any value
CallNormalizeUrlPath ==
  /\ out = NoOut
  /\ out' = [fn |-> "normalizeUrlPath", val |-> normalizeUrlPath(arg)]
  /\ UNCHANGED <<arg, doc, fs, manifest, clock, pc, step, idx, parsed, photos, cur, built, err,
                 exitCode, runs, dirty, hist>>

\* lines 30-36, on a string
CallToThumbUrl ==
  /\ out = NoOut
  /\ arg.t = "string"
  /\ out' = [fn |-> "toThumbUrl", val |-> toThumbUrl(arg.s)]
  /\ UNCHANGED <<arg, doc, fs, manifest, clock, pc, step, idx, parsed, photos, cur, built, err,
                 exitCode, runs, dirty, hist>>

PathNext ==
  \/ CallNormalizeUrlPath
  \/ CallToThumbUrl

PathSpec == PathInit /\ [][PathNext]_vars

TypeOK ==
  /\ pc \in {"Init", "Reading", "Processing", "Assembling", "Writing", "Done", "Failed"}
  /\ step \in {"none", "validate", "stat", "prepare", "meta", "generate", "push"}
  /\ idx \in 0..MaxLen
  /\ exitCode \in {0, 1}
  /\ runs \in 1..MaxRuns
  /\ clock \in 1..MaxRuns

(***************************************************************************)
(* Properties.                                                             *)
(***************************************************************************)
NumItems == Len(doc.items)

RawSrc(i) == Field(doc.items[i], "src")

\* the source URL and the paths the build derives for descriptor i (1-based)
SrcOf(i) == normalizeUrlPath(Coalesce(RawSrc(i)))
AbsSrcOf(i) == toFsPathFromPublicUrl(SrcOf(i))
AbsThumbOf(i) == toFsPathFromPublicUrl(toThumbUrl(SrcOf(i)))

ThumbWrites == {k \in 1..Len(hist.effects) : hist.effects[k].op = "thumb"}
ManifestWrites == {k \in 1..Len(hist.effects) : hist.effects[k].op = "manifest"}

\* C1: when a run fails in any step before the manifest write (validation,
\* source check, dimension read, thumbnail encode or write, and the reading of
\* the document), the manifest is what it was when the run started, no write
\* of it was made, and the exit code is not zero.
C1_FailureLeavesManifest ==
  (pc = "Failed" /\ err.kind # "ManifestWriteFailure") =>
     /\ manifest = hist.manifest0
     /\ ManifestWrites = {}
     /\ exitCode # 0

\* a run that regenerated a thumbnail, then failed on the next one, with a
\* manifest of an earlier build on disk
C1_Witness ==
  /\ pc = "Failed"
  /\ err.kind = "ThumbnailWriteFailure"
  /\ hist.regen # {}
  /\ manifest = OldManifest

RECURSIVE ProcessingTrace(_, _)
ProcessingTrace(i, n) ==
  IF i >= n THEN <<>> ELSE <<<<"Processing", i>>>> \o ProcessingTrace(i + 1, n)

ExpectedTrace(n) ==
  <<<<"Init", 0>>, <<"Reading", 0>>>> \o ProcessingTrace(0, n)
    \o <<<<"Assembling", n>>, <<"Writing", n>>, <<"Done", n>>>>

\* C2: a run that ends with exit code 0 ended in Done after the states Init,
\* Reading, Processing[0..n-1], Assembling, Writing, Done in that order; every
\* descriptor has a non-empty src that resolves to a regular file; every
\* thumbnail judged stale was written, and so was every thumbnail file that
\* was stale when the run started; the manifest was written once, as the last
\* write of the run.
C2_ExitZeroOnlyOnSuccess ==
  (Ended /\ exitCode = 0) =>
     /\ pc = "Done"
     /\ hist.trace = ExpectedTrace(NumItems)
     /\ \A i \in 1..NumItems :
          /\ Len(Trim(SrcOf(i))) > 0
          /\ Lookup(fs, AbsSrcOf(i)).kind = "file"
          /\ (/\ Lookup(fs, AbsThumbOf(i)).kind = "file"
              /\ \/ Lookup(hist.fs0, AbsThumbOf(i)).kind = "none"
                 \/ Lookup(hist.fs0, AbsSrcOf(i)).mtime > Lookup(hist.fs0, AbsThumbOf(i)).mtime)
             => \E k \in ThumbWrites : hist.effects[k].path = AbsThumbOf(i)
          /\ hist.judged[i] => (i - 1) \in hist.regen
     /\ manifest = built
     /\ manifest.state = "ok"
     /\ ManifestWrites = {Len(hist.effects)}

\* a successful run over two descriptors that wrote a thumbnail
C2_Witness ==
  /\ pc = "Done"
  /\ exitCode = 0
  /\ NumItems = 2
  /\ ThumbWrites # {}

\* the entry the build derives from descriptor i, computed from the document
\* and the disk
TextOf(i, k) == Trim(JsString(Coalesce(Field(doc.items[i], k))))

DerivedPhoto(i) ==
  LET e == Lookup(fs, AbsSrcOf(i))
  IN [id |-> stableIdFromSrc(SrcOf(i)), src |-> SrcOf(i), thumbSrc |-> toThumbUrl(SrcOf(i)),
      width |-> e.w, height |-> e.h,
      thumbWidth |-> ThumbWidthOf(e.w), thumbHeight |-> ThumbHeightOf(e.w, e.h),
      title |-> TextOf(i, "title"), shotUsing |-> TextOf(i, "shotUsing"),
      location |-> TextOf(i, "location"), description |-> TextOf(i, "description")]

\* C3: after a successful run the manifest has one entry per descriptor, and
\* entry i is the one derived from descriptor i: input order, duplicates kept.
C3_ManifestInInputOrder ==
  pc = "Done" =>
     /\ Len(manifest.photos) = NumItems
     /\ \A i \in 1..NumItems : manifest.photos[i] = DerivedPhoto(i)

\* a manifest of two entries with different sources
C3_Witness ==
  /\ pc = "Done"
  /\ Len(manifest.photos) = 2
  /\ manifest.photos[1].src # manifest.photos[2].src

\* a manifest of two entries of the same source
C3_WitnessDuplicate ==
  /\ pc = "Done"
  /\ Len(manifest.photos) = 2
  /\ manifest.photos[1].src = manifest.photos[2].src

\* C4: a descriptor that reached the encode step has its thumbnail encoded
\* exactly when no file is at the thumbnail path or the source's mtime is
\* greater than the thumbnail's; otherwise (equal mtimes, or a newer
\* thumbnail) the step encodes nothing and leaves the disk as it is.
C4_RegenerateIffStale ==
  [][(pc = "Processing" /\ step = "generate") =>
       LET thumb == Lookup(fs, cur.absThumb)
           src == Lookup(fs, cur.absSrc)
           stale == thumb.kind = "none" \/ src.mtime > thumb.mtime
           encoded == \/ /\ idx \in hist'.regen
                         /\ Lookup(fs', cur.absThumb).kind = "file"
                         /\ Lookup(fs', cur.absThumb).ok
                         /\ Lookup(fs', cur.absThumb).from = cur.absSrc
                      \/ /\ pc' = "Failed"
                         /\ err'.kind = "ThumbnailWriteFailure"
       IN IF stale
          THEN encoded
          ELSE /\ fs' = fs
               /\ idx \notin hist'.regen
               /\ pc' = "Processing"
               /\ step' = "push"]_vars

\* a thumbnail as old as its source was kept
C4_Witness ==
  /\ pc = "Processing"
  /\ step = "push"
  /\ cur.thumbMtime = cur.srcMtime
  /\ idx \notin hist.regen
  /\ fs = hist.fs0

WithoutTime(m) == [m EXCEPT !.generatedAt = 0]

\* C5: a run that follows a successful run, with the same document and no
\* source changed in between, encodes nothing, leaves the disk as it was and
\* writes the manifest of the first run again, generatedAt apart.  (The
\* state looked at is the end of the run, before any later edit: ~dirty.)
C5_SecondRunIdempotent ==
  (pc = "Done" /\ ~dirty /\ runs > 1 /\ hist.prevOk /\ hist.cleanStart) =>
     /\ hist.regen = {}
     /\ ThumbWrites = {}
     /\ fs = hist.fs0
     /\ WithoutTime(manifest) = WithoutTime(hist.manifest0)

\* the second of two successful runs over two photos, one clock tick later
C5_Witness ==
  /\ pc = "Done"
  /\ ~dirty
  /\ runs > 1
  /\ hist.prevOk
  /\ hist.cleanStart
  /\ Len(manifest.photos) = 2
  /\ manifest.generatedAt > hist.manifest0.generatedAt

\* the claim's reading of an unusable src: missing, not a string, or empty
\* once trimmed
SrcUnusable(v) == v.t # "string" \/ Len(Trim(v.s)) = 0

\* C6 (as claimed): a descriptor whose src is missing, not a string or empty
\* after trimming never gets past the check of line 87: the run fails with
\* InvalidDescriptor naming its index, and no fs.stat was made for it.
C6_UnusableSrcRejected ==
  (pc \in {"Processing", "Failed"} /\ idx < Len(parsed) /\ step # "validate"
     /\ SrcUnusable(Field(parsed[idx + 1], "src"))) =>
       /\ pc = "Failed"
       /\ err.kind = "InvalidDescriptor"
       /\ err.idx = idx
       /\ idx \notin hist.statted

C7_WitnessAbsent ==
  /\ pc = "Failed"
  /\ err.kind = "MissingSourceFile"
  /\ Lookup(fs, err.path).kind = "none"

\* round(a / b) for integers a >= 0, b > 0, in exact arithmetic
RoundDiv(a, b) == (2 * a + b) \div (2 * b)

\* C8 (as claimed): every entry has thumbWidth = min(900, w) and
\* thumbHeight = max(1, round(h * thumbWidth / w)), both at least 1 and no
\* larger than the source.
C8_ThumbSizeLaw ==
  \A i \in 1..Len(photos) :
     LET p == photos[i]
     IN /\ p.thumbWidth = MathMin(THUMB_WIDTH, p.width)
        /\ p.thumbHeight = MathMax(1, RoundDiv(p.height * p.thumbWidth, p.width))
        /\ p.thumbWidth >= 1 /\ p.thumbWidth <= p.width
        /\ p.thumbHeight >= 1 /\ p.thumbHeight <= p.height

\* what the claim says a text field becomes
ClaimedText(v) == IF v.t = "string" THEN Trim(v.s) ELSE <<>>

\* C9 (as claimed): title, shotUsing, location and description enter the
\* manifest trimmed when they are strings and empty otherwise, and no value
\* of them makes the run fail.
C9_TextFieldsCoerced ==
  /\ err.kind # "TypeError"
  /\ \A i \in 1..Len(photos) :
       /\ photos[i].title = ClaimedText(Field(parsed[i], "title"))
       /\ photos[i].shotUsing = ClaimedText(Field(parsed[i], "shotUsing"))
       /\ photos[i].location = ClaimedText(Field(parsed[i], "location"))
       /\ photos[i].description = ClaimedText(Field(parsed[i], "description"))

\* C10 (as claimed): no run ends in Done having skipped the encode of a
\* thumbnail whose file is the incomplete output of a failed encode of the
\* same, unchanged source.
C10_NoPartialThumbAccepted ==
  pc = "Done" =>
     \A i \in 1..NumItems :
        LET thumb == Lookup(fs, AbsThumbOf(i))
        IN ~(/\ (i - 1) \notin hist.regen
             /\ thumb.kind = "file"
             /\ ~thumb.ok
             /\ thumb.from = AbsSrcOf(i)
             /\ thumb.ver = Lookup(fs, AbsSrcOf(i)).ver)

\* C11: after a successful run the manifest is the document built from the
\* current descriptor list and the current source files alone (generatedAt,
\* the thumbnail policy, one derived entry per descriptor): it does not depend
\* on the manifest that was there before, an entry of the previous manifest
\* is in it only when the current list derives it, and the run wrote the
\* manifest exactly once.
C11_ManifestReplaced ==
  pc = "Done" =>
     /\ WithoutTime(manifest) =
          [state |-> "ok", generatedAt |-> 0, thumb |-> ThumbPolicy,
           photos |-> [i \in 1..NumItems |-> DerivedPhoto(i)]]
     /\ manifest.generatedAt \in hist.manifest0.generatedAt..clock
     /\ \A k \in 1..Len(hist.manifest0.photos) :
          (\E j \in 1..Len(manifest.photos) : manifest.photos[j] = hist.manifest0.photos[k])
             => \E i \in 1..NumItems : DerivedPhoto(i) = hist.manifest0.photos[k]
     /\ Cardinality(ManifestWrites) = 1

\* a successful run over a manifest of an earlier build whose photo is no
\* longer in the list: the new manifest has photos, and not that one
C11_Witness ==
  /\ pc = "Done"
  /\ hist.manifest0 = OldManifest
  /\ Len(manifest.photos) > 0
  /\ \A j \in 1..Len(manifest.photos) : manifest.photos[j] # OldManifest.photos[1]

\* C12 (as claimed): in the manifest of a successful run, entries with
\* different src values have different id values, also when the src values
\* differ only by letter case or by '/' against '.'.
C12_IdsDistinct ==
  pc = "Done" =>
     \A i, j \in 1..Len(manifest.photos) :
        manifest.photos[i].src # manifest.photos[j].src
           => manifest.photos[i].id # manifest.photos[j].id

ThumbsPrefix == <<"/", "g", "a", "l", "l", "e", "r", "y", "/", "t", "h", "u", "m", "b", "s", "/">>

JpgSuffix == <<".", "j", "p", "g">>

HasPrefix(s, p) == Len(s) >= Len(p) /\ SubSeq(s, 1, Len(p)) = p

HasSuffix(s, x) == Len(s) >= Len(x) /\ SubSeq(s, Len(s) - Len(x) + 1, Len(s)) = x

\* the path the claim gives for a source URL: /gallery/thumbs/<dir>/<name>.jpg,
\* <dir> being the directory of the URL (nothing when it has none) and <name>
\* its last segment without the last extension
ClaimedThumbUrl(url) ==
  LET rel == stripLeadingSlash(ReplaceAllChar(url, "\\", "/"))
      dir == PathDirname(rel)
      name == PathBasename(rel, PathExtname(rel))
  IN ThumbsPrefix \o (IF dir = <<".">> THEN <<>> ELSE dir \o <<"/">>) \o name \o JpgSuffix

\* a URL whose segments are all names: none is empty, '.' or '..'
PlainUrl(url) ==
  LET segs == SplitOn(stripLeadingSlash(ReplaceAllChar(url, "\\", "/")), "/")
  IN \A k \in 1..Len(segs) : segs[k] \notin {<<>>, <<".">>, <<".", ".">>}

\* C13 (as claimed): for every non-empty source URL, the result of toThumbUrl
\* starts with /gallery/thumbs/ and ends in .jpg, whatever the extension of
\* the source; for a URL made of names it is /gallery/thumbs/<dir>/<name>.jpg.
C13_ThumbUrlForm ==
  (out.fn = "toThumbUrl" /\ Len(arg.s) > 0) =>
     /\ HasPrefix(out.val, ThumbsPrefix)
     /\ HasSuffix(out.val, JpgSuffix)
     /\ PlainUrl(arg.s) => out.val = ClaimedThumbUrl(arg.s)

\* C14: a failure ends the run at once.  Whenever an error was raised the run
\* is in Failed; from Failed nothing more is processed, retried or written in
\* that run; and when the processing of descriptor idx fails, only the
\* descriptors 0..idx were reached (each once: stat, decode, thumbnail write)
\* and every thumbnail encoded for an earlier descriptor is on disk as written.
C14_FailFast ==
  [][/\ err' # NoErr => pc' = "Failed"
     /\ (pc = "Failed" /\ runs' = runs) =>
          /\ pc' = "Failed"
          /\ err' = err
          /\ hist' = hist
          /\ DOMAIN fs' = DOMAIN fs
          /\ \A p \in DOMAIN fs : fs[p].from # <<>> => fs'[p] = fs[p]
     /\ (pc = "Processing" /\ pc' = "Failed") =>
          /\ hist'.statted \subseteq 0..idx
          /\ Len(hist'.judged) <= idx + 1
          /\ \A k \in 1..Len(hist'.effects) : hist'.effects[k].idx <= idx
          /\ hist'.trace = <<<<"Init", 0>>, <<"Reading", 0>>>> \o ProcessingTrace(0, idx + 1)
                              \o <<<<"Failed", idx>>>>
          /\ \A j \in hist.regen :
               LET src == Lookup(fs, AbsSrcOf(j + 1))
               IN /\ j < idx
                  /\ Lookup(fs', AbsThumbOf(j + 1)) =
                       ThumbFile(clock, ThumbWidthOf(src.w), ThumbHeightOf(src.w, src.h),
                                 src.ver, TRUE, AbsSrcOf(j + 1))]_vars

\* the first of two descriptors failed at the decode: the second was not reached
C14_Witness ==
  /\ pc = "Failed"
  /\ err.kind \in {"UnreadableImage", "CodecError", "ThumbnailWriteFailure"}
  /\ idx = 0
  /\ Len(parsed) = 2
  /\ hist.statted = {0}

\* the second descriptor failed after the thumbnail of the first was encoded
C14_WitnessKept ==
  /\ pc = "Failed"
  /\ idx = 1
  /\ hist.regen = {0}
  /\ Lookup(fs, AbsThumbOf(1)).kind = "file"

\* C15 (as claimed): in a successful run, two descriptors with different src
\* values have different thumbnail paths, and the file at the thumbnail path
\* of the one was not encoded from the source of the other.
C15_ThumbPathsDistinct ==
  pc = "Done" =>
     \A i, j \in 1..NumItems :
        SrcOf(i) # SrcOf(j) =>
           /\ toThumbUrl(SrcOf(i)) # toThumbUrl(SrcOf(j))
           /\ AbsThumbOf(i) # AbsThumbOf(j)
           /\ Lookup(fs, AbsThumbOf(i)).from # AbsSrcOf(j)

\* C16: when the document is not JSON, or is JSON but not an array, the run
\* fails straight after reading it: the disk is as it was when the run started
\* (no directory made, no thumbnail written), no source was stat'ed or decoded
\* and the manifest is untouched.
C16_MalformedInputFailsFirst ==
  (Ended /\ doc.kind \in {"unparsable", "notArray"}) =>
     /\ pc = "Failed"
     /\ err.kind = (IF doc.kind = "unparsable" THEN "SyntaxError" ELSE "NotArray")
     /\ hist.trace = <<<<"Init", 0>>, <<"Reading", 0>>, <<"Failed", 0>>>>
     /\ hist.effects = <<>>
     /\ hist.statted = {}
     /\ hist.judged = <<>>
     /\ fs = hist.fs0
     /\ manifest = hist.manifest0
     /\ exitCode = 1

\* a document that is not an array, on a disk where the output directories
\* do not exist yet
C16_Witness ==
  /\ pc = "Failed"
  /\ doc.kind = "notArray"
  /\ Lookup(fs, GENERATED_DIR).kind = "none"
  /\ Lookup(fs, THUMBS_PUBLIC_DIR).kind = "none"

\* C17 (as claimed): normalizeUrlPath gives the empty string for the empty
\* string and for every value that is not a string; for a non-empty string it
\* gives a string that starts with '/' and has no backslash.
C17_NormalizeSentinel ==
  out.fn = "normalizeUrlPath" =>
     IF arg.t # "string" \/ arg.s = <<>>
     THEN out.val = <<>>
     ELSE /\ StartsWith(out.val, "/")
          /\ \A k \in 1..Len(out.val) : out.val[k] # "\\"

\* the same without the empty string, for which the code gives "/"
C17_NormalizeButEmpty ==
  (out.fn = "normalizeUrlPath" /\ arg # Str(<<>>)) =>
     IF arg.t # "string"
     THEN out.val = <<>>
     ELSE /\ StartsWith(out.val, "/")
          /\ \A k \in 1..Len(out.val) : out.val[k] # "\\"

\* C18 (as claimed): at the end of every successful run, whatever edits of
\* source files (each stamped with the time of the edit) and runs came
\* before, the thumbnail of every manifest entry was encoded from the current
\* content of the entry's source and has the thumbWidth x thumbHeight of the
\* entry.  Stated here for the entries whose thumbnail path holds a complete
\* encode of their own source.
C18_CacheCorrect ==
  (pc = "Done" /\ ~dirty) =>
     \A i \in 1..NumItems :
        LET thumb == Lookup(fs, AbsThumbOf(i))
            src == Lookup(fs, AbsSrcOf(i))
        IN (thumb.kind = "file" /\ thumb.ok /\ thumb.from = AbsSrcOf(i)) =>
              /\ thumb.ver = src.ver
              /\ thumb.w = manifest.photos[i].thumbWidth
              /\ thumb.h = manifest.photos[i].thumbHeight

\* C19 (as claimed): after every successful run, each entry of the manifest
\* has a thumbnail file at the path of its thumbSrc and a source file at
\* the path of its src.
C19_FilesExist ==
  pc = "Done" =>
     \A i \in 1..Len(manifest.photos) :
        /\ Lookup(fs, toFsPathFromPublicUrl(manifest.photos[i].thumbSrc)).kind = "file"
        /\ Lookup(fs, toFsPathFromPublicUrl(manifest.photos[i].src)).kind = "file"

\* the same for the source files alone
C19_SourcesExist ==
  pc = "Done" =>
     \A i \in 1..Len(manifest.photos) :
        Lookup(fs, toFsPathFromPublicUrl(manifest.photos[i].src)).kind = "file"

AllPaths == DOMAIN fs \cup DOMAIN fs'

OrphanThumbs ==
  {p \in DOMAIN hist.fs0 :
     /\ hist.fs0[p].kind = "file"
     /\ hist.fs0[p].from # <<>>
     /\ \A i \in 1..NumItems : p # AbsThumbOf(i)}

====
